---- MODULE Spec2Model ----
(***************************************************************************)
(* Logobot: the bulk watermark bot (new.py).                               *)
(*                                                                         *)
(* State: the per-user session map user_state, the temporary-file store    *)
(* fs, and the handler coroutines in flight (task).  One action is one     *)
(* stretch of handler code between two suspension points (await): in an    *)
(* asyncio event loop such a stretch runs without interruption.            *)
(*                                                                         *)
(* run_polling puts the updates that arrive into the update queue; the     *)
(* Application, built without concurrent_updates, takes the next update    *)
(* from the queue when the handlers of the one before have returned.       *)
(*                                                                         *)
(* The single-image bot (bot.py) has its own session map USER_STATE and    *)
(* its own handler in flight (btask) and is specified by SpecBot.  The     *)
(* functions studied on their own (cleanup_files, the compositing          *)
(* arithmetic) are applied to an argument arg with the outcome in res,     *)
(* under SpecCleanup and SpecComposite.                                    *)
(***************************************************************************)
EXTENDS Naturals, Sequences, FiniteSets

\* ---------------------------------------------------------------- bounds
NumUsers == 2
NumPaths == 5
MaxImages == 2
NumTasks == 2
MaxFaults == 1
MaxUpdates == 4
MaxQueue == 1

Users == 1..NumUsers
Paths == 1..NumPaths
Tasks == 1..NumTasks

\* logo_tmp: Optional[str] = None
NoPath == 0

\* ------------------------------------------------------------- the store
\* What a path resolves to: nothing, a decodable image, an undecodable file.
Absent == "absent"
Good == "good"
Bad == "bad"
Contents == {Good, Bad}

\* tempfile.mkstemp creates a file under a new random name, and
\* _unique_temp_path removes the file again and returns the name: a name that
\* does not exist when it is returned.  mkstemp's names are taken to be
\* unique: the name returned is one that no session and no handler in flight
\* holds (held).  Such names are interchangeable, and the least of them
\* stands for them all.
Least(S) == CHOOSE p \in S : \A q \in S : p <= q

\* variant: any name that is not on disk, also one that is still held
unique_temp_path_any(f, held) ==
  LET fresh == {p \in Paths : f[p] = Absent}
  IN IF fresh = {} THEN {} ELSE {Least(fresh)}

\* mkstemp, close, remove: a name that is not on disk; mkstemp's names are
\* random, so it is none that a session or a handler in flight holds
unique_temp_path(f, held) ==
  LET fresh == {p \in Paths : f[p] = Absent} \ held
  IN IF fresh = {} THEN {} ELSE {Least(fresh)}

\* variant: the file is left where it is
remove_if_exists_keep(f, p) == f

\* if p and os.path.exists(p): os.remove(p)
remove_if_exists(f, p) ==
  IF p # NoPath /\ f[p] # Absent THEN [f EXCEPT ![p] = Absent] ELSE f

\* variant: the loop stops before the last path
RECURSIVE cleanup_files_skip(_, _)
cleanup_files_skip(f, paths) ==
  IF Len(paths) <= 1 THEN f
  ELSE cleanup_files_skip(remove_if_exists(f, Head(paths)), Tail(paths))

\* for p in paths: remove p if it exists
RECURSIVE cleanup_files(_, _)
cleanup_files(f, paths) ==
  IF paths = << >> THEN f
  ELSE cleanup_files(remove_if_exists(f, Head(paths)), Tail(paths))

\* file_obj.download_to_drive(custom_path=dest_path), completed
download_to_drive(f, dest, content) == [f EXCEPT ![dest] = content]

\* ---------------------------------------------------------- the sessions
NoRec == [present |-> FALSE, images |-> << >>, confirmed |-> FALSE, waiting_logo |-> FALSE]
EmptyRec == [present |-> TRUE, images |-> << >>, confirmed |-> FALSE, waiting_logo |-> FALSE]

\* variant: no record is created
ensure_user_state_skip(us, uid) == us

\* if uid not in user_state: user_state[uid] = the empty record
ensure_user_state(us, uid) ==
  IF ~us[uid].present THEN [us EXCEPT ![uid] = EmptyRec] ELSE us

\* variant: the whole map is cleared
pop_all(us, uid) == [u \in DOMAIN us |-> NoRec]

\* cancel_cmd: user_state.pop(uid, None)
pop(us, uid) == [us EXCEPT ![uid] = NoRec]

\* The phase of the specification's state machine, read off a record.
Idle == "Idle"
CollectingImages == "CollectingImages"
AwaitingLogo == "AwaitingLogo"
Phase(s) ==
  IF s.waiting_logo THEN AwaitingLogo
  ELSE IF s.images # << >> THEN CollectingImages
  ELSE Idle

\* variant: the new image is put at the head of the list
append_image_front(s, dest) ==
  [s EXCEPT !.images = << dest >> \o @, !.confirmed = FALSE]

\* handle_image_message: images.append(dest); confirmed = False
append_image(s, dest) ==
  [s EXCEPT !.images = Append(@, dest), !.confirmed = FALSE]

\* variant: the test for an empty list is missing
confirm_branch_nocheck(s) ==
  IF s.confirmed THEN "already" ELSE "confirm"

\* handle_text_message, txt == "confirm": which branch is taken
confirm_branch(s) ==
  IF s.images = << >> THEN "noimages"
  ELSE IF s.confirmed THEN "already"
  ELSE "confirm"

\* variant: waiting_logo is not set
mark_confirmed_only(s) == [s EXCEPT !.confirmed = TRUE]

\* handle_text_message: confirmed = True; waiting_logo = True
mark_confirmed(s) == [s EXCEPT !.confirmed = TRUE, !.waiting_logo = TRUE]

\* variant: the two guards are missing
logo_gate_open(s) == "logo"

\* handle_sticker_or_document_as_logo, the two guards at its head
logo_gate(s) ==
  IF ~s.confirmed THEN "notconfirmed"
  ELSE IF ~s.waiting_logo THEN "pleasewait"
  ELSE "logo"

\* ------------------------------------------------------------- messages
Image == "image"            \* a photo or an image document
Sticker == "sticker"        \* a static sticker
Animated == "animated"      \* an animated sticker

\* replies, as <<text, index of the base image it is about or 0>>
Reply(tag) == << tag, 0 >>

\* --------------------------------------------------------------- tasks
\* what was in flight when an update arrived: whose handler, and whether it
\* was handle_image_message suspended at get_file() or at the download
NoDuring == [uid |-> 0, what |-> "none"]

IdleTask ==
  [pc |-> "idle", uid |-> 1, kind |-> "none", content |-> Good, phase0 |-> Idle,
   dest |-> NoPath, logo_tmp |-> NoPath, webp_path |-> NoPath, out_path |-> NoPath,
   snap |-> << >>, proc |-> << >>, idx |-> 0, out |-> << >>,
   looped |-> FALSE, envfail |-> FALSE, base0 |-> << >>, logo0 |-> Absent,
   imgs0 |-> << >>, during |-> NoDuring, codec |-> << FALSE, FALSE >>]

\* the single-image bot (bot.py): no record for a user, and no handler running
NoStage == [stage |-> "none", orig |-> NoPath]
BotIdle ==
  [pc |-> "idle", uid |-> 1, kind |-> "none", content |-> Good, stage0 |-> "none",
   path |-> NoPath, orig_path |-> NoPath, logo_path |-> NoPath, output_path |-> NoPath,
   out |-> << >>, base0 |-> Absent, logo0 |-> Absent]

\* user_state .. updates: the bulk bot and its transport.  USER_STATE, btask:
\* the single-image bot, which is another program with its own process (fs,
\* faults and updates are then its store and its transport).  arg, res: the
\* argument and the result of a function that is applied on its own.
VARIABLES user_state, fs, task, queue, scen, faults, updates, USER_STATE, btask, arg, res

vars == << user_state, fs, task, queue, scen, faults, updates, USER_STATE, btask, arg, res >>

\* the variables of the bulk bot alone, of the single-image bot alone, and
\* of a function applied on its own
bulk_vars == << user_state, task, queue, scen >>
bot_vars == << USER_STATE, btask >>
fun_vars == << arg, res >>

\* scen follows, per user, the scenario "no session, then N images whose
\* downloads succeed, then one confirm": the handles in arrival order.
FreshScen == [st |-> "collect", imgs |-> << >>]
SpoiledScen == [st |-> "spoiled", imgs |-> << >>]

\* the bulk bot has not started
BulkOff ==
  /\ user_state = [u \in Users |-> NoRec]
  /\ task = [t \in Tasks |-> IdleTask]
  /\ queue = << >>
  /\ scen = [u \in Users |-> FreshScen]

\* the single-image bot has not started
BotOff ==
  /\ USER_STATE = [u \in Users |-> NoStage]
  /\ btask = BotIdle

\* no function is applied on its own
FunOff ==
  /\ arg = << >>
  /\ res = 0

Init ==
  /\ BulkOff
  /\ fs = [p \in Paths |-> Absent]
  /\ faults = 0
  /\ updates = MaxUpdates
  /\ BotOff
  /\ FunOff

Range(q) == {q[i] : i \in 1..Len(q)}

InFlight(t) == task[t].pc \notin {"idle", "done"}

DuringNow ==
  IF \E t \in Tasks : InFlight(t)
    THEN LET t == Least({t2 \in Tasks : InFlight(t2)})
         IN [uid |-> task[t].uid,
             what |-> IF task[t].pc \in {"img_get_file", "img_download"}
                        THEN "image_fetch" ELSE "other"]
    ELSE NoDuring

\* variant: the Application is built with concurrent_updates, and takes the
\* next update while handlers are suspended
update_fetcher_concurrent == TRUE

\* ApplicationBuilder().token(...).build() sets no concurrent_updates: the
\* Application awaits the handlers of an update before it takes the next
\* update from the queue.
update_fetcher == \A t \in Tasks : task[t].pc = "idle"

\* the Application takes update (u, k, c) from the head of the queue and
\* hands it to task t, the first idle one
Dispatch(t, u, k, c) ==
  /\ update_fetcher
  /\ task[t].pc = "idle"
  /\ \A t2 \in 1..(t - 1) : task[t2].pc # "idle"
  /\ queue # << >>
  /\ Head(queue).uid = u
  /\ Head(queue).kind = k
  /\ Head(queue).content = c
  /\ queue' = Tail(queue)
  /\ UNCHANGED << updates, bot_vars, fun_vars >>

\* the number of base images stored, over all sessions
RECURSIVE SumLen(_, _)
SumLen(us, n) == IF n = 0 THEN 0 ELSE Len(us[n].images) + SumLen(us, n - 1)
Stored == SumLen(user_state, NumUsers)

\* the names held by the sessions and by the handlers in flight
Held ==
  UNION {Range(user_state[u].images) : u \in Users}
  \cup UNION {IF task[t].pc = "idle" THEN {}
              ELSE {task[t].dest, task[t].logo_tmp, task[t].webp_path, task[t].out_path}
                   \cup Range(task[t].snap) \cup Range(task[t].proc) : t \in Tasks}

NewTask(u, k, c) ==
  [IdleTask EXCEPT !.uid = u, !.kind = k, !.content = c,
                   !.phase0 = Phase(user_state[u]),
                   !.imgs0 = user_state[u].images,
                   !.during = Head(queue).during]

Say(tk, tag) == [tk EXCEPT !.out = Append(@, Reply(tag))]
\* the handler returns; the locals nothing reads any more are dropped
Finish(tk) ==
  [tk EXCEPT !.pc = "done", !.content = Good, !.dest = NoPath,
             !.webp_path = NoPath, !.out_path = NoPath, !.idx = 0]
Spoil(u) == scen' = [scen EXCEPT ![u] = SpoiledScen]

\* an operation of the transport or of the codec raises (at most MaxFaults
\* times in a run), or it returns
Raises == faults < MaxFaults /\ faults' = faults + 1
Returns == faults' = faults

\* ------------------------------------------------------ command handlers
start_cmd(t, u) ==
  /\ Dispatch(t, u, "start", Good)
  /\ user_state' = ensure_user_state(user_state, u)
  /\ task' = [task EXCEPT ![t] = Finish(Say(NewTask(u, "start", Good), "Welcome"))]
  /\ Spoil(u)
  /\ UNCHANGED << fs, faults >>

cancel_cmd(t, u) ==
  /\ Dispatch(t, u, "cancel", Good)
  /\ user_state' = pop(user_state, u)
  /\ fs' = IF user_state[u].present
             THEN cleanup_files(fs, user_state[u].images)
             ELSE fs
  /\ task' = [task EXCEPT ![t] = Finish(Say(NewTask(u, "cancel", Good), "Cancelled"))]
  /\ scen' = [scen EXCEPT ![u] = FreshScen]
  /\ UNCHANGED faults

handle_text_message(t, u, txt) ==
  /\ Dispatch(t, u, txt, Good)
  /\ LET tk == NewTask(u, txt, Good)
         us1 == ensure_user_state(user_state, u)
         br == confirm_branch(us1[u])
     IN IF txt # "confirm"
          THEN /\ task' = [task EXCEPT ![t] = Finish(tk)]
               /\ Spoil(u)
               /\ UNCHANGED user_state
          ELSE /\ user_state' = IF br = "confirm"
                                  THEN [us1 EXCEPT ![u] = mark_confirmed(@)]
                                  ELSE us1
               /\ task' = [task EXCEPT ![t] =
                     Finish(Say(tk, CASE br = "noimages" -> "NoImages"
                                      [] br = "already" -> "AlreadyConfirmedText"
                                      [] OTHER -> "Confirmed"))]
               /\ scen' = [scen EXCEPT ![u] =
                     IF @.st = "collect" THEN [@ EXCEPT !.st = "confirmed"]
                     ELSE SpoiledScen]
  /\ UNCHANGED << fs, faults >>

\* ------------------------------------------ the logo handler, at its head
\* ensure_user_state, the two guards, and the choice of the branch by the
\* kind of message; the first await of the branch is get_file().
\* variant: the record is reset as soon as a message passes the two guards
logo_entry_us_reset(us, u) ==
  IF us[u].waiting_logo THEN [us EXCEPT ![u] = EmptyRec]
  ELSE ensure_user_state(us, u)

logo_entry_us(us, u) == ensure_user_state(us, u)

logo_entry_task(us, tk) ==
  LET g == logo_gate(ensure_user_state(us, tk.uid)[tk.uid])
  IN CASE g = "notconfirmed" -> Finish(Say(tk, "NotConfirmed"))
       [] g = "pleasewait" -> Finish(Say(tk, "PleaseWait"))
       [] OTHER -> IF tk.kind \in {Image, Sticker}
                     THEN [tk EXCEPT !.pc = "logo_get_file"]
                     ELSE Finish(Say(tk, "SendLogo"))

\* A photo or image document is handled by handle_image_message (group 0)
\* and then by handle_sticker_or_document_as_logo (group 1).
Group1(t, us, tk) ==
  /\ user_state' = logo_entry_us(us, tk.uid)
  /\ task' = [task EXCEPT ![t] = logo_entry_task(us, tk)]

\* ------------------------------------------------- handle_image_message
\* up to the first await: the reply of the waiting_logo branch, or get_file()
image_start(t, u, c) ==
  /\ Dispatch(t, u, Image, c)
  /\ LET tk == NewTask(u, Image, c)
         us1 == ensure_user_state(user_state, u)
     IN /\ user_state' = us1
        /\ task' = [task EXCEPT ![t] =
              IF us1[u].waiting_logo
                THEN [Say(tk, "AlreadyConfirmed") EXCEPT !.pc = "g0_end"]
                ELSE [tk EXCEPT !.pc = "img_get_file"]]
  /\ scen' = [scen EXCEPT ![u] = IF @.st = "collect" THEN @ ELSE SpoiledScen]
  /\ UNCHANGED << fs, faults >>

\* get_file() returns: dest = _unique_temp_path(suffix) and the download
\* starts; or it raises, which ends the handler of group 0.
image_get_file(t) ==
  /\ UNCHANGED << updates, queue, bot_vars, fun_vars >>
  /\ /\ task[t].pc = "img_get_file"
     /\ \/ /\ \E p \in unique_temp_path(fs, Held) :
                task' = [task EXCEPT ![t] = [@ EXCEPT !.dest = p, !.pc = "img_download"]]
           /\ Returns
           /\ UNCHANGED << user_state, fs, scen >>
        \/ /\ Raises
           /\ Group1(t, user_state, [task[t] EXCEPT !.envfail = TRUE])
           /\ Spoil(task[t].uid)
           /\ UNCHANGED fs

\* the download returns or raises
image_download(t) ==
  /\ UNCHANGED << updates, queue, bot_vars, fun_vars >>
  /\ LET tk == task[t]
         u == tk.uid
         f1 == download_to_drive(fs, tk.dest, tk.content)
     IN /\ tk.pc = "img_download"
        /\ \/ \* download_to_drive raised, with or without a part of the
              \* file written: except branch
              /\ Raises
              /\ \E part \in {Absent, Bad} :
                   fs' = remove_if_exists(download_to_drive(fs, tk.dest, part), tk.dest)
              /\ task' = [task EXCEPT ![t] =
                    [Say(tk, "SaveFailed") EXCEPT !.pc = "g0_end", !.envfail = TRUE]]
              /\ Spoil(u)
              /\ UNCHANGED user_state
           \/ \* downloaded, but the record is gone: KeyError, except branch
              /\ Returns
              /\ ~user_state[u].present
              /\ fs' = remove_if_exists(f1, tk.dest)
              /\ task' = [task EXCEPT ![t] = [Say(tk, "SaveFailed") EXCEPT !.pc = "g0_end"]]
              /\ Spoil(u)
              /\ UNCHANGED user_state
           \/ \* downloaded and appended; the reply is awaited
              /\ Returns
              /\ user_state[u].present
              /\ fs' = f1
              /\ user_state' = [user_state EXCEPT ![u] = append_image(@, tk.dest)]
              /\ task' = [task EXCEPT ![t] = [Say(tk, "Saved") EXCEPT !.pc = "img_saved"]]
              /\ scen' = [scen EXCEPT ![u] =
                    IF @.st = "collect" THEN [@ EXCEPT !.imgs = Append(@, tk.dest)] ELSE @]

\* the "Image saved" reply returns, or raises into the except branch
image_saved(t) ==
  /\ UNCHANGED << updates, queue, bot_vars, fun_vars >>
  /\ LET tk == task[t]
     IN /\ tk.pc = "img_saved"
        /\ \/ /\ Returns
              /\ Group1(t, user_state, tk)
              /\ UNCHANGED << fs, scen >>
           \/ /\ Raises
              /\ fs' = remove_if_exists(fs, tk.dest)
              /\ task' = [task EXCEPT ![t] =
                    [Say(tk, "SaveFailed") EXCEPT !.pc = "g0_end", !.envfail = TRUE]]
              /\ UNCHANGED << user_state, scen >>

\* the last reply of handle_image_message returns (or raises): group 1 runs
image_end(t) ==
  /\ UNCHANGED << updates, queue, bot_vars, fun_vars >>
  /\ /\ task[t].pc = "g0_end"
     /\ Group1(t, user_state, task[t])
     /\ UNCHANGED << fs, scen, faults >>

\* ---------------------------- handle_sticker_or_document_as_logo, the rest
\* a sticker arrives: the handler of group 0 is the logo handler itself
logo_start(t, u, k, c) ==
  /\ Dispatch(t, u, k, c)
  /\ Group1(t, user_state, NewTask(u, k, c))
  /\ Spoil(u)
  /\ UNCHANGED << fs, faults >>

\* get_file() returns and the download to a new name starts, or it raises
\* into the outer except branch (logo_tmp is still None there)
logo_get_file(t) ==
  /\ UNCHANGED << updates, queue, bot_vars, fun_vars >>
  /\ LET tk == task[t]
     IN /\ tk.pc = "logo_get_file"
        /\ \/ /\ Returns
              /\ \E p \in unique_temp_path(fs, Held) :
                   task' = [task EXCEPT ![t] =
                      IF tk.kind = Image
                        THEN [tk EXCEPT !.logo_tmp = p, !.pc = "logo_download"]
                        ELSE [tk EXCEPT !.webp_path = p, !.pc = "logo_download"]]
           \/ /\ Raises
              /\ task' = [task EXCEPT ![t] =
                    Finish(Say([tk EXCEPT !.envfail = TRUE], "Unexpected"))]
        /\ UNCHANGED << user_state, fs, scen >>

\* variant: no dwebp fallback
try_convert_pillow_only(f, webp_path, png_path, pillow_ok, dwebp_ok) ==
  IF f[webp_path] = Good /\ pillow_ok
    THEN [fs |-> [f EXCEPT ![png_path] = Good], ret |-> png_path]
    ELSE [fs |-> remove_if_exists(f, png_path), ret |-> NoPath]

\* Pillow first, dwebp second; the PNG is removed when both fail
try_convert_webp_to_png(f, webp_path, png_path, pillow_ok, dwebp_ok) ==
  IF f[webp_path] = Good /\ (pillow_ok \/ dwebp_ok)
    THEN [fs |-> [f EXCEPT ![png_path] = Good], ret |-> png_path]
    ELSE [fs |-> remove_if_exists(f, png_path), ret |-> NoPath]

\* Image.open(base_path), then Image.open(logo_tmp)
open_images(f, base, logo) ==
  IF f[base] = Absent THEN "missing"
  ELSE IF f[base] = Bad THEN "unidentified"
  ELSE IF f[logo] = Absent THEN "missing"
  ELSE IF f[logo] = Bad THEN "unidentified"
  ELSE "ok"

\* variant: the reply for a base image is held back until the loop has ended
SayIdx_held(tk, tag, i) == tk

\* the reply for base image i: reply_photo, or the notice of an except branch
SayIdx(tk, tag, i) == [tk EXCEPT !.out = Append(@, << tag, i >>)]

\* the outer except branch: remove logo_tmp, reply, return
OuterExcept(t, f, tk) ==
  /\ fs' = remove_if_exists(f, tk.logo_tmp)
  /\ task' = [task EXCEPT ![t] = Finish(Say(tk, "Unexpected"))]
  /\ UNCHANGED user_state

\* variant: the loop steps over every other base image
next_idx_skip(i) == i + 2

\* the for loop steps to the next base image
next_idx(i) == i + 1

\* The loop from the head of iteration tk.idx to its next await, or, past
\* the last base image, the cleanup and the reset up to the final reply.
Iterate(t, f, tk) ==
  LET u == tk.uid
  IN IF tk.idx > Len(tk.snap)
       THEN IF ~user_state[u].present
              THEN OuterExcept(t, f, tk) /\ Returns
              ELSE /\ Returns
                   /\ fs' = remove_if_exists(
                              cleanup_files(cleanup_files(f, user_state[u].images), tk.proc),
                              tk.logo_tmp)
                   /\ user_state' = [user_state EXCEPT ![u] = EmptyRec]
                   /\ task' = [task EXCEPT ![t] = [Say(tk, "Done") EXCEPT !.pc = "sent_done"]]
       ELSE \E op \in unique_temp_path(f, Held \ ({tk.out_path} \ Range(tk.proc))) :
              LET base == tk.snap[tk.idx]
                  tko == [tk EXCEPT !.out_path = op]
                  opened == open_images(f, base, tk.logo_tmp)
                  saved == [f EXCEPT ![op] = Good]
              IN /\ UNCHANGED user_state
                 /\ CASE opened = "unidentified" ->
                           /\ Returns
                           /\ fs' = f
                           /\ task' = [task EXCEPT ![t] =
                                 [SayIdx(tko, "SkipUnid", tk.idx) EXCEPT !.pc = "sent_skip_unid"]]
                      [] opened = "missing" ->
                           /\ Returns
                           /\ fs' = remove_if_exists(f, op)
                           /\ task' = [task EXCEPT ![t] =
                                 [SayIdx(tko, "SkipFailed", tk.idx) EXCEPT !.pc = "sent_skip"]]
                      [] OTHER ->
                           \/ \* resize, paste or save raises
                              /\ Raises
                              /\ fs' = remove_if_exists(f, op)
                              /\ task' = [task EXCEPT ![t] =
                                    [SayIdx(tko, "SkipFailed", tk.idx)
                                       EXCEPT !.pc = "sent_skip", !.envfail = TRUE]]
                           \/ \* saved; the caption reads user_state[uid]
                              /\ Returns
                              /\ IF ~user_state[u].present
                                   THEN /\ fs' = remove_if_exists(saved, op)
                                        /\ task' = [task EXCEPT ![t] =
                                              [SayIdx(tko, "SkipFailed", tk.idx)
                                                 EXCEPT !.pc = "sent_skip",
                                                        !.proc = Append(@, op)]]
                                   ELSE /\ fs' = saved
                                        /\ task' = [task EXCEPT ![t] =
                                              [SayIdx(tko, "Photo", tk.idx)
                                                 EXCEPT !.pc = "sent_photo",
                                                        !.proc = Append(@, op)]]

\* the logo download returns or raises; a sticker is converted at once
logo_download(t) ==
  /\ UNCHANGED << updates, queue, bot_vars, fun_vars >>
  /\ LET tk == task[t]
     IN /\ tk.pc = "logo_download"
        /\ UNCHANGED << user_state, scen >>
        /\ IF tk.kind = Image
             THEN \/ OuterExcept(t, fs, [tk EXCEPT !.envfail = TRUE]) /\ Raises
                  \/ /\ Returns
                     /\ fs' = download_to_drive(fs, tk.logo_tmp, tk.content)
                     /\ task' = [task EXCEPT ![t] =
                           [Say(tk, "Processing") EXCEPT !.pc = "sent_processing"]]
             ELSE \/ \* the download raises: what it wrote of the .webp stays
                     /\ Raises
                     /\ fs' \in {fs, [fs EXCEPT ![tk.webp_path] = Bad]}
                     /\ task' = [task EXCEPT ![t] =
                           Finish(Say([tk EXCEPT !.envfail = TRUE], "Unexpected"))]
                  \/ LET f1 == download_to_drive(fs, tk.webp_path, tk.content)
                     IN \E png \in unique_temp_path(f1, Held) :
                        \E pillow_ok \in BOOLEAN : \E dwebp_ok \in BOOLEAN :
                          LET r == try_convert_webp_to_png(f1, tk.webp_path, png,
                                                           pillow_ok, dwebp_ok)
                              f2 == remove_if_exists(r.fs, tk.webp_path)
                              tkc == [tk EXCEPT !.codec = << pillow_ok, dwebp_ok >>]
                          IN /\ Returns
                             /\ fs' = f2
                             /\ task' = [task EXCEPT ![t] =
                                   IF r.ret # NoPath
                                     THEN [Say(tkc, "Processing")
                                             EXCEPT !.logo_tmp = r.ret,
                                                    !.webp_path = NoPath,
                                                    !.pc = "sent_processing"]
                                     ELSE Finish(Say(tkc, "ConvFailed"))]

\* the "Processing all images" reply returns or raises; the loop starts
logo_processing(t) ==
  /\ UNCHANGED << updates, queue, bot_vars, fun_vars >>
  /\ LET tk == task[t]
         u == tk.uid
         imgs == user_state[u].images
     IN /\ tk.pc = "sent_processing"
        /\ UNCHANGED scen
        /\ \/ OuterExcept(t, fs, [tk EXCEPT !.envfail = TRUE]) /\ Raises
           \/ IF ~user_state[u].present
                THEN OuterExcept(t, fs, tk) /\ Returns
                ELSE Iterate(t, fs,
                       [tk EXCEPT !.snap = imgs, !.proc = << >>, !.idx = 1,
                                  !.looped = TRUE,
                                  !.base0 = [i \in 1..Len(imgs) |-> fs[imgs[i]]],
                                  !.logo0 = fs[tk.logo_tmp]])

\* reply_photo (and the sleep after it) returns, or raises into the
\* except Exception branch of the iteration
logo_sent_photo(t) ==
  /\ UNCHANGED << updates, queue, bot_vars, fun_vars >>
  /\ LET tk == task[t]
     IN /\ tk.pc = "sent_photo"
        /\ UNCHANGED scen
        /\ \/ Iterate(t, fs, [tk EXCEPT !.idx = next_idx(@)])
           \/ /\ Raises
              /\ fs' = remove_if_exists(fs, tk.out_path)
              /\ task' = [task EXCEPT ![t] =
                    [SayIdx(tk, "SkipFailed", tk.idx)
                       EXCEPT !.pc = "sent_skip", !.envfail = TRUE]]
              /\ UNCHANGED user_state

\* the reply of an except branch of the iteration returns, or raises out of
\* the loop into the outer except branch
logo_sent_skip(t) ==
  /\ UNCHANGED << updates, queue, bot_vars, fun_vars >>
  /\ LET tk == task[t]
     IN /\ tk.pc \in {"sent_skip", "sent_skip_unid"}
        /\ UNCHANGED scen
        /\ \/ Iterate(t,
                      IF tk.pc = "sent_skip_unid" THEN remove_if_exists(fs, tk.out_path) ELSE fs,
                      [tk EXCEPT !.idx = next_idx(@)])
           \/ OuterExcept(t, fs, [tk EXCEPT !.envfail = TRUE]) /\ Raises

\* the "Done" reply returns, or raises into the outer except branch
logo_sent_done(t) ==
  /\ UNCHANGED << updates, queue, bot_vars, fun_vars >>
  /\ LET tk == task[t]
     IN /\ tk.pc = "sent_done"
        /\ UNCHANGED << user_state, scen >>
        /\ \/ /\ Returns
              /\ task' = [task EXCEPT ![t] = Finish(tk)]
              /\ UNCHANGED fs
           \/ OuterExcept(t, fs, [tk EXCEPT !.envfail = TRUE]) /\ Raises

\* the update has been processed: the dispatcher takes the next one
update_processed(t) ==
  /\ UNCHANGED << updates, queue, bot_vars, fun_vars >>
  /\ /\ task[t].pc = "done"
     /\ task' = [task EXCEPT ![t] = IdleTask]
     /\ UNCHANGED << user_state, fs, scen, faults >>

\* --------------------------------------------------------- the transport
\* the kinds of update that arrive, with what the file they carry holds
UpdateKinds ==
  {<< "start", Good >>, << "cancel", Good >>, << "confirm", Good >>, << "text", Good >>,
   << Image, Good >>, << Image, Bad >>, << Sticker, Good >>, << Sticker, Bad >>,
   << Animated, Good >>}

\* base images stored, waiting in the queue, or being fetched
ImagesUnderway ==
  Stored
  + Cardinality({i \in 1..Len(queue) : queue[i].kind = Image})
  + Cardinality({t \in Tasks : task[t].kind = Image
                                /\ task[t].pc \in {"img_get_file", "img_download"}})

\* app.run_polling(): an update arrives and is put into the update queue
\* (updates: how many more arrive in this run)
run_polling(u, k, c) ==
  /\ updates > 0
  /\ Len(queue) < MaxQueue
  /\ k = Image => ImagesUnderway < MaxImages
  /\ queue' = Append(queue, [uid |-> u, kind |-> k, content |-> c, during |-> DuringNow])
  /\ updates' = updates - 1
  /\ UNCHANGED << user_state, fs, task, scen, faults, bot_vars, fun_vars >>

Handlers(t) ==
  \/ \E u \in Users : start_cmd(t, u)
  \/ \E u \in Users : cancel_cmd(t, u)
  \/ \E u \in Users : \E txt \in {"confirm", "text"} : handle_text_message(t, u, txt)
  \/ \E u \in Users : \E c \in Contents : image_start(t, u, c)
  \/ image_get_file(t)
  \/ image_download(t)
  \/ image_saved(t)
  \/ image_end(t)
  \/ \E u \in Users : \E kc \in {<< Sticker, Good >>, << Sticker, Bad >>, << Animated, Good >>} :
       logo_start(t, u, kc[1], kc[2])
  \/ logo_get_file(t)
  \/ logo_download(t)
  \/ logo_processing(t)
  \/ logo_sent_photo(t)
  \/ logo_sent_skip(t)
  \/ logo_sent_done(t)
  \/ update_processed(t)

Next ==
  \/ \E u \in Users : \E kc \in UpdateKinds : run_polling(u, kc[1], kc[2])
  \/ \E t \in Tasks : Handlers(t)

Spec == Init /\ [][Next]_vars

\* ------------------------------------------------ the single-image bot
\* bot.py keeps one record per user, {"stage": "awaiting_logo", "orig": path},
\* and is built without concurrent_updates as well: one update at a time.
\* btask is the handler that runs; an update of another kind than a photo,
\* an image document or a sticker carries no file (File).
File == "file"

\* the names held by the records and by the handler that runs
BotHeld ==
  {USER_STATE[u].orig : u \in Users}
  \cup (IF btask.pc = "idle" THEN {}
        ELSE {btask.path, btask.orig_path, btask.logo_path, btask.output_path})

BSay(tk, tag) == [tk EXCEPT !.out = Append(@, tag)]

\* the update is taken from the transport (updates: how many more arrive)
BotDispatch ==
  /\ btask.pc = "idle"
  /\ updates > 0
  /\ updates' = updates - 1
  /\ UNCHANGED << bulk_vars, fun_vars >>

BotTask(u, k, c) ==
  [BotIdle EXCEPT !.uid = u, !.kind = k, !.content = c, !.stage0 = USER_STATE[u].stage]

\* start, owner, unknown: a reply and nothing else
start(u) ==
  /\ BotDispatch
  /\ btask' = [BSay(BotTask(u, "start", Good), "Welcome") EXCEPT !.pc = "reply_end"]
  /\ UNCHANGED << USER_STATE, fs, faults >>

\* USER_STATE.pop(user_id, None), with the file of the record
pop_state(us, f, u) ==
  [us |-> [us EXCEPT ![u] = NoStage], fs |-> remove_if_exists(f, us[u].orig)]

\* cancel: the record is popped and its file removed, then the reply
cancel(u) ==
  /\ BotDispatch
  /\ USER_STATE' = pop_state(USER_STATE, fs, u).us
  /\ fs' = pop_state(USER_STATE, fs, u).fs
  /\ btask' = [BSay(BotTask(u, "cancel", Good), "Cancelled") EXCEPT !.pc = "reply_end"]
  /\ UNCHANGED faults

\* message_handler up to the first await of _download_image: get_file(),
\* or, for a message that carries no image, the reply of line 139
message_handler(u, k, c) ==
  /\ BotDispatch
  /\ btask' = IF k = File
                THEN [BSay(BotTask(u, k, c), "SendImage") EXCEPT !.pc = "reply_end"]
                ELSE [BotTask(u, k, c) EXCEPT !.pc = "get_file"]
  /\ UNCHANGED << USER_STATE, fs, faults >>

\* get_file() returns: path = _unique_temp_path(..) and the download
\* starts; or it raises, and the exception leaves the handler
download_image_get_file ==
  /\ btask.pc = "get_file"
  /\ \/ /\ Returns
        /\ \E p \in unique_temp_path(fs, BotHeld) :
             btask' = [btask EXCEPT !.path = p, !.pc = "download"]
     \/ /\ Raises
        /\ btask' = [btask EXCEPT !.pc = "done"]
  /\ UNCHANGED << USER_STATE, fs, updates, bulk_vars, fun_vars >>

\* the finally block: orig, logo and output removed, the record popped
finally_cleanup(f, tk) ==
  remove_if_exists(remove_if_exists(remove_if_exists(f, tk.orig_path), tk.logo_path),
                   tk.output_path)

\* message_handler from "if not incoming_path" to its next await, with the
\* store f and the path (or None) that _download_image returned
incoming(f, tk, incoming_path) ==
  LET u == tk.uid
  IN IF incoming_path = NoPath
       THEN /\ fs' = f
            /\ btask' = [BSay(tk, "SendImage") EXCEPT !.pc = "reply_end"]
            /\ UNCHANGED USER_STATE
     ELSE IF USER_STATE[u].stage = "awaiting_logo"
       THEN \E op \in unique_temp_path(f, BotHeld \cup {incoming_path}) :
              /\ fs' = f
              /\ btask' = [BSay(tk, "Processing")
                             EXCEPT !.orig_path = USER_STATE[u].orig,
                                    !.logo_path = incoming_path,
                                    !.output_path = op,
                                    !.base0 = f[USER_STATE[u].orig],
                                    !.logo0 = f[incoming_path],
                                    !.pc = "processing"]
              /\ UNCHANGED USER_STATE
     ELSE /\ fs' = f
          /\ USER_STATE' = [USER_STATE EXCEPT ![u] =
                               [stage |-> "awaiting_logo", orig |-> incoming_path]]
          /\ btask' = [BSay(tk, "GotBase") EXCEPT !.pc = "reply_end"]

\* the download returns, or raises and the exception leaves the handler; a
\* sticker is converted to PNG by Pillow, and when that fails
\* _download_image returns None
download_image_download ==
  /\ btask.pc = "download"
  /\ UNCHANGED << updates, bulk_vars, fun_vars >>
  /\ \/ /\ Raises
        /\ \E part \in {Absent, Bad} : fs' = download_to_drive(fs, btask.path, part)
        /\ btask' = [btask EXCEPT !.pc = "done"]
        /\ UNCHANGED USER_STATE
     \/ /\ Returns
        /\ LET f1 == download_to_drive(fs, btask.path, btask.content)
           IN IF btask.kind = Sticker
                THEN \E pillow_ok \in BOOLEAN :
                       IF f1[btask.path] = Good /\ pillow_ok
                         THEN \E png \in unique_temp_path(f1, BotHeld) :
                                incoming(remove_if_exists([f1 EXCEPT ![png] = Good], btask.path),
                                         [btask EXCEPT !.path = png], png)
                         ELSE incoming(f1, btask, NoPath)
                ELSE incoming(f1, btask, btask.path)

\* the "Processing..." reply returns, or raises and the exception leaves the
\* handler; then the two images are opened and the output is composited,
\* up to the next reply
message_handler_processing ==
  /\ btask.pc = "processing"
  /\ UNCHANGED << USER_STATE, updates, bulk_vars, fun_vars >>
  /\ \/ /\ Raises
        /\ btask' = [btask EXCEPT !.pc = "done"]
        /\ UNCHANGED fs
     \/ LET opened == open_images(fs, btask.orig_path, btask.logo_path)
        IN CASE opened = "unidentified" ->
                  /\ Returns
                  /\ btask' = [BSay(btask, "CouldntRead") EXCEPT !.pc = "unidentified"]
                  /\ UNCHANGED fs
             [] opened = "missing" ->
                  /\ Returns
                  /\ btask' = [BSay(btask, "Unexpected") EXCEPT !.pc = "reply_end"]
                  /\ UNCHANGED fs
             [] OTHER ->
                  \/ \* resize, paste or save raises
                     /\ Raises
                     /\ btask' = [BSay(btask, "Failed") EXCEPT !.pc = "failed"]
                     /\ UNCHANGED fs
                  \/ /\ Returns
                     /\ fs' = [fs EXCEPT ![btask.output_path] = Good]
                     /\ btask' = [BSay(btask, "Photo") EXCEPT !.pc = "sent_photo"]

\* except UnidentifiedImageError: the reply returns and the logo is removed,
\* or the reply raises; the handler returns
message_handler_unidentified ==
  /\ btask.pc = "unidentified"
  /\ btask' = [btask EXCEPT !.pc = "done"]
  /\ \/ Returns /\ fs' = remove_if_exists(fs, btask.logo_path)
     \/ Raises /\ UNCHANGED fs
  /\ UNCHANGED << USER_STATE, updates, bulk_vars, fun_vars >>

\* reply_photo returns: the finally block; or it raises: the "Failed" reply
message_handler_sent_photo ==
  /\ btask.pc = "sent_photo"
  /\ UNCHANGED << updates, bulk_vars, fun_vars >>
  /\ \/ /\ Returns
        /\ fs' = finally_cleanup(fs, btask)
        /\ USER_STATE' = [USER_STATE EXCEPT ![btask.uid] = NoStage]
        /\ btask' = [btask EXCEPT !.pc = "done"]
     \/ /\ Raises
        /\ btask' = [BSay(btask, "Failed") EXCEPT !.pc = "failed"]
        /\ UNCHANGED << USER_STATE, fs >>

\* the "Failed" reply returns or raises: the finally block runs either way
message_handler_failed ==
  /\ btask.pc = "failed"
  /\ Returns \/ Raises
  /\ fs' = finally_cleanup(fs, btask)
  /\ USER_STATE' = [USER_STATE EXCEPT ![btask.uid] = NoStage]
  /\ btask' = [btask EXCEPT !.pc = "done"]
  /\ UNCHANGED << updates, bulk_vars, fun_vars >>

\* the last reply of a handler returns or raises: the handler is over
reply_sent ==
  /\ btask.pc = "reply_end"
  /\ Returns \/ Raises
  /\ btask' = [btask EXCEPT !.pc = "done"]
  /\ UNCHANGED << USER_STATE, fs, updates, bulk_vars, fun_vars >>

\* the update has been processed: the next one can be taken
bot_update_processed ==
  /\ btask.pc = "done"
  /\ btask' = BotIdle
  /\ UNCHANGED << USER_STATE, fs, faults, updates, bulk_vars, fun_vars >>

InitBot ==
  /\ BulkOff
  /\ FunOff
  /\ USER_STATE = [u \in Users |-> NoStage]
  /\ btask = BotIdle
  /\ fs = [p \in Paths |-> Absent]
  /\ faults = 0
  /\ updates = MaxUpdates

NextBot ==
  \/ \E u \in Users : start(u)
  \/ \E u \in Users : cancel(u)
  \/ \E u \in Users : \E kc \in {<< Image, Good >>, << Image, Bad >>, << Sticker, Good >>,
                                   << Sticker, Bad >>, << File, Good >>} :
       message_handler(u, kc[1], kc[2])
  \/ download_image_get_file
  \/ download_image_download
  \/ message_handler_processing
  \/ message_handler_unidentified
  \/ message_handler_sent_photo
  \/ message_handler_failed
  \/ reply_sent
  \/ bot_update_processed

SpecBot == InitBot /\ [][NextBot]_vars

\* ------------------------------------------- the compositing arithmetic
\* Python floats are IEEE 754 binary64: 53 significant bits, and every
\* operation rounds its exact result to nearest, ties to even.  A positive
\* float is kept as its 53 bits m, in three limbs << l1, l2, l3 >> of 17, 18
\* and 18 bits (Top <= l1 < 2 * Top), and its exponent e with a bias: the
\* value is (l1 * Limb^2 + l2 * Limb + l3) * 2^(e - Bias - 52).
RECURSIVE Pow2(_)
Pow2(k) == IF k = 0 THEN 1 ELSE 2 * Pow2(k - 1)

Limb == Pow2(18)
Top == Pow2(16)
Bias == 64

\* the k with y * 2^k <= x < y * 2^(k+1), for x >= y
RECURSIVE ShiftUp(_, _)
ShiftUp(x, y) == IF 2 * y <= x THEN 1 + ShiftUp(x, 2 * y) ELSE 0

\* the least k with x * 2^k >= y
RECURSIVE ShiftDown(_, _)
ShiftDown(x, y) == IF x >= y THEN 0 ELSE 1 + ShiftDown(2 * x, y)

\* the 53 bits m of an exact result that is not less than them, and up:
\* whether what was left is more than half a unit of the last bit, or just
\* half of it with the last bit odd
Round(m, up, e) ==
  IF ~up THEN [m |-> m, e |-> e]
  ELSE IF m[3] + 1 < Limb THEN [m |-> << m[1], m[2], m[3] + 1 >>, e |-> e]
  ELSE IF m[2] + 1 < Limb THEN [m |-> << m[1], m[2] + 1, 0 >>, e |-> e]
  ELSE IF m[1] + 1 < 2 * Top THEN [m |-> << m[1] + 1, 0, 0 >>, e |-> e]
  ELSE [m |-> << Top, 0, 0 >>, e |-> e + 1]

\* a / b for two positive integers, as a float; also the float that a
\* decimal literal a/b (0.12 is 12/100) denotes
fdiv(a, b) ==
  LET up == a >= b
      k == IF up THEN ShiftUp(a, b) ELSE ShiftDown(a, b)
      A == IF up THEN a ELSE a * Pow2(k)
      B == IF up THEN b * Pow2(k) ELSE b
      e == IF up THEN Bias + k ELSE Bias - k
      v1 == (A - B) * Top
      v2 == (v1 % B) * Limb
      v3 == (v2 % B) * Limb
      l3 == v3 \div B
      left == v3 % B
  IN Round(<< Top + (v1 \div B), v2 \div B, l3 >>,
           2 * left > B \/ (2 * left = B /\ l3 % 2 = 1), e)

\* n * x for a positive integer n and a float x
fmul(n, x) ==
  LET t3 == x.m[3] * n
      t2 == x.m[2] * n + (t3 \div Limb)
      t1 == x.m[1] * n + (t2 \div Limb)
      s == ShiftUp(t1, Top)
      D == Pow2(s)
      v2 == (t1 % D) * Limb + (t2 % Limb)
      v3 == (v2 % D) * Limb + (t3 % Limb)
      l3 == v3 \div D
      left == v3 % D
  IN Round(<< t1 \div D, v2 \div D, l3 >>,
           2 * left > D \/ (2 * left = D /\ l3 % 2 = 1), x.e + s)

\* int(x): the integer part of a positive float below 2^31
int(x) ==
  IF x.e < Bias THEN 0
  ELSE IF x.e - Bias <= 16 THEN x.m[1] \div Pow2(16 - (x.e - Bias))
  ELSE x.m[1] * Pow2(x.e - Bias - 16) + (x.m[2] \div Pow2(34 - (x.e - Bias)))

max(a, b) == IF a >= b THEN a ELSE b

\* target_w = max(1, int(base_img.width * 0.12))
target_w(W) == max(1, int(fmul(W, fdiv(12, 100))))

\* ratio = target_w / float(logo_img.width)
ratio(W, Lw) == fdiv(target_w(W), Lw)

\* new_h = max(1, int(logo_img.height * ratio))
new_h(W, Lw, Lh) == max(1, int(fmul(Lh, ratio(W, Lw))))

\* variant: the padding has no least value
padding_no_min(W) == int(fmul(W, fdiv(3, 100)))

\* padding = int(max(15, base_img.width * 0.03))
padding(W) == max(15, int(fmul(W, fdiv(3, 100))))

MaxW == 20
MaxLw == 12
MaxLh == 12

\* the sizes the compositor is applied to: the small ones, and the sizes of
\* a 1000 pixel wide base image with a 500 by 200 logo
BaseWidths == (1..MaxW) \cup {1000}
LogoWidths == (1..MaxLw) \cup {500}
LogoHeights == (1..MaxLh) \cup {200}

NoSize == [target_w |-> 0, new_h |-> 0, position |-> << 0, 0 >>]

InitComposite ==
  /\ BulkOff
  /\ BotOff
  /\ fs = [p \in Paths |-> Absent]
  /\ faults = 0
  /\ updates = 0
  /\ arg \in BaseWidths \X LogoWidths \X LogoHeights
  /\ res = NoSize

\* the logo is resized to (target_w, new_h) and pasted at (padding, padding)
paste_logo ==
  /\ res = NoSize
  /\ res' = [target_w |-> target_w(arg[1]),
             new_h |-> new_h(arg[1], arg[2], arg[3]),
             position |-> << padding(arg[1]), padding(arg[1]) >>]
  /\ UNCHANGED << bulk_vars, bot_vars, fs, faults, updates, arg >>

NextComposite == paste_logo

SpecComposite == InitComposite /\ [][NextComposite]_vars

\* ------------------------------------------- cleanup_files on its own
MaxArgLen == 2

\* the lists of paths cleanup_files is called with: names and None
PathLists == UNION {[1..n -> Paths \cup {NoPath}] : n \in 0..MaxArgLen}

InitCleanup ==
  /\ BulkOff
  /\ BotOff
  /\ fs \in [Paths -> {Absent, Good, Bad}]
  /\ faults = 0
  /\ updates = 0
  /\ arg \in PathLists
  /\ res = 0

\* cleanup_files(arg) is called; res counts the calls
cleanup_files_call ==
  /\ res < 2
  /\ fs' = cleanup_files(fs, arg)
  /\ res' = res + 1
  /\ UNCHANGED << bulk_vars, bot_vars, faults, updates, arg >>

NextCleanup == cleanup_files_call

SpecCleanup == InitCleanup /\ [][NextCleanup]_vars

\* ------------------------------------------------------------ the claims
\* the step in which task t handles an update of kind k of user u from its
\* arrival to the handler's return
Handled(t, k, u) ==
  /\ task[t].pc = "idle"
  /\ task'[t].pc = "done"
  /\ task'[t].kind = k
  /\ task'[t].uid = u

\* C1: in every reachable state and for every user, a session that waits for
\* the logo (waiting_logo) has a non-empty list of stored base images.
C1_AwaitingLogoHasImages ==
  \A u \in Users : user_state[u].waiting_logo => user_state[u].images # << >>

C1_Witness ==
  \E u \in Users : user_state[u].waiting_logo /\ Len(user_state[u].images) = 2

\* C2: from no session, after N image messages whose downloads succeed and
\* then one confirm, the session awaits the logo iff N >= 1, and the stored
\* list is the N handles in the order of arrival.
C2_ImagesThenConfirm ==
  \A u \in Users :
    scen[u].st = "confirmed" =>
      /\ (Phase(user_state[u]) = AwaitingLogo) <=> (Len(scen[u].imgs) >= 1)
      /\ user_state[u].images = scen[u].imgs

C2_Witness ==
  \E u \in Users :
    /\ scen[u].st = "confirmed"
    /\ Len(scen[u].imgs) = 2
    /\ Phase(user_state[u]) = AwaitingLogo

\* C3: a confirm received with no stored base image leaves the phase as it
\* was (not AwaitingLogo, the list still empty) and replies with the rejection.
C3_ConfirmEmptyRejected ==
  [][\A t \in Tasks : \A u \in Users :
       (Handled(t, "confirm", u) /\ user_state[u].images = << >>) =>
         /\ Phase(user_state'[u]) = Phase(user_state[u])
         /\ Phase(user_state'[u]) # AwaitingLogo
         /\ user_state'[u].images = << >>
         /\ task'[t].out = << Reply("NoImages") >>]_vars

C3_Witness ==
  \E t \in Tasks :
    /\ task[t].pc = "done"
    /\ task[t].kind = "confirm"
    /\ task[t].imgs0 = << >>
    /\ task[t].out = << Reply("NoImages") >>
    /\ Phase(user_state[task[t].uid]) = Idle

\* C4: a cancel received in any phase leaves the user's session Idle (no
\* stored base image, not awaiting a logo) and none of the files stored for
\* the session exists afterwards, also when it arrived while a handler of
\* another user was in flight.
C4_CancelReleases ==
  [][\A t \in Tasks : \A u \in Users :
       Handled(t, "cancel", u) =>
         /\ Phase(user_state'[u]) = Idle
         /\ user_state'[u].images = << >>
         /\ ~user_state'[u].waiting_logo
         /\ \A p \in Range(user_state[u].images) : fs'[p] = Absent]_vars

C4_Witness ==
  \E t \in Tasks :
    /\ task[t].pc = "done"
    /\ task[t].kind = "cancel"
    /\ task[t].phase0 = AwaitingLogo
    /\ task[t].imgs0 # << >>
    /\ \A p \in Range(task[t].imgs0) : fs[p] = Absent
    /\ Phase(user_state[task[t].uid]) = Idle
    /\ task[t].during.what = "image_fetch"
    /\ task[t].during.uid # task[t].uid

\* C5: once the batch loop has started, when the logo handler returns the
\* session is Idle with an empty list and every base file, every output file
\* and the logo file is deleted, whatever failed inside the loop.
C5_BatchAlwaysReleases ==
  \A t \in Tasks :
    (task[t].pc = "done" /\ task[t].looped) =>
      /\ Phase(user_state[task[t].uid]) = Idle
      /\ user_state[task[t].uid].images = << >>
      /\ \A p \in Range(task[t].snap) \cup Range(task[t].proc) \cup {task[t].logo_tmp} :
           p # NoPath => fs[p] = Absent

\* C6: in a batch whose base images are stored files, some of them
\* undecodable, with a decodable logo and no failure of the transport or of
\* the compositing, every decodable base image is delivered and every
\* undecodable one is answered by one skip notification, in insertion order,
\* and the run ends Idle with an empty list.
IsDelivery(r) == r[1] \in {"Photo", "SkipUnid", "SkipFailed"}

C6_BatchSkipsUndecodable ==
  \A t \in Tasks :
    ( /\ task[t].pc = "done"
      /\ task[t].looped
      /\ ~task[t].envfail
      /\ task[t].logo0 = Good
      /\ \A i \in 1..Len(task[t].base0) : task[t].base0[i] \in Contents ) =>
      /\ SelectSeq(task[t].out, IsDelivery)
           = [i \in 1..Len(task[t].base0) |->
                IF task[t].base0[i] = Good THEN << "Photo", i >> ELSE << "SkipUnid", i >>]
      /\ Phase(user_state[task[t].uid]) = Idle
      /\ user_state[task[t].uid].images = << >>

C6_Witness ==
  \E t \in Tasks :
    /\ task[t].pc = "done"
    /\ task[t].looped
    /\ ~task[t].envfail
    /\ task[t].logo0 = Good
    /\ task[t].base0 = << Bad, Good >>
    /\ SelectSeq(task[t].out, IsDelivery) = << << "SkipUnid", 1 >>, << "Photo", 2 >> >>

\* C7: a photo or image document that arrives in AwaitingLogo leaves the
\* session in AwaitingLogo, is not appended to the stored list, and is
\* answered by the informational reply, once both handlers it is dispatched
\* to have returned.
C7_ImageWhileAwaitingLogo ==
  \A t \in Tasks :
    (task[t].pc = "done" /\ task[t].kind = Image /\ task[t].phase0 = AwaitingLogo) =>
      /\ Phase(user_state[task[t].uid]) = AwaitingLogo
      /\ user_state[task[t].uid].images = task[t].imgs0
      /\ \E i \in 1..Len(task[t].out) : task[t].out[i] = Reply("AlreadyConfirmed")

\* C8: a sticker received in Idle or CollectingImages changes neither the
\* phase nor the stored list, starts no batch run, and is answered by the
\* reply that the batch has to be confirmed first.
C8_LogoBeforeConfirm ==
  \A t \in Tasks :
    ( /\ task[t].pc = "done"
      /\ task[t].kind \in {Sticker, Animated}
      /\ task[t].phase0 \in {Idle, CollectingImages} ) =>
      /\ Phase(user_state[task[t].uid]) = task[t].phase0
      /\ user_state[task[t].uid].images = task[t].imgs0
      /\ ~task[t].looped
      /\ task[t].logo_tmp = NoPath
      /\ task[t].out = << Reply("NotConfirmed") >>

C8_Witness ==
  \E t \in Tasks :
    /\ task[t].pc = "done"
    /\ task[t].kind = Sticker
    /\ task[t].phase0 = CollectingImages
    /\ task[t].out = << Reply("NotConfirmed") >>
    /\ user_state[task[t].uid].images = task[t].imgs0

\* C9: when a confirm, a logo or a cancel of a user arrives while the image
\* handler of the same user is suspended at its file fetch or download, no
\* image is appended to the batch once the session awaits the logo,
\* confirmed and waiting_logo never disagree, and a batch run deletes and
\* resets only the batch it started with.
C9_NoInterleaving ==
  [][\A u \in Users :
       /\ user_state[u].waiting_logo =>
            Len(user_state'[u].images) <= Len(user_state[u].images)
       /\ user_state'[u].confirmed = user_state'[u].waiting_logo
       /\ \A t \in Tasks :
            ( /\ task[t].uid = u
              /\ task[t].looped
              /\ task[t].pc # "sent_done"
              /\ task'[t].pc = "sent_done" ) =>
              user_state[u].images = task[t].snap]_vars

C9_Witness ==
  \E t \in Tasks :
    /\ task[t].pc = "done"
    /\ task[t].kind = "confirm"
    /\ task[t].during = [uid |-> task[t].uid, what |-> "image_fetch"]
    /\ task[t].out = << Reply("Confirmed") >>
    /\ user_state[task[t].uid].waiting_logo
    /\ user_state[task[t].uid].confirmed
    /\ user_state[task[t].uid].images = task[t].imgs0

\* C10: a step of a handler that runs for user A leaves the session record
\* and the stored files of every other user B as they were.
C10_OtherUsersUntouched ==
  [][\A t \in Tasks : \A b \in Users :
       (task'[t] # task[t] /\ task'[t].pc # "idle" /\ task'[t].uid # b) =>
         /\ user_state'[b] = user_state[b]
         /\ \A p \in Range(user_state[b].images) : fs'[p] = fs[p]]_vars

C10_Witness ==
  \E t \in Tasks : \E b \in Users :
    /\ task[t].pc = "done"
    /\ task[t].kind = "cancel"
    /\ task[t].imgs0 # << >>
    /\ task[t].uid # b
    /\ user_state[b].images # << >>
    /\ \A p \in Range(user_state[b].images) : fs[p] # Absent

\* C13: outputs are delivered one at a time.  When the loop of a batch goes
\* on to base image j, then for every base image i before j the reply for i
\* (its output photo or its skip notice) has been sent already: the
\* compositing of j begins only after it.
C13_StreamingDelivery ==
  [][\A t \in Tasks :
       (/\ task[t].looped
        /\ task'[t].idx > task[t].idx
        /\ task'[t].idx <= Len(task[t].snap))
       => \A i \in 1..(task'[t].idx - 1) :
            \E k \in 1..Len(task[t].out) :
              IsDelivery(task[t].out[k]) /\ task[t].out[k][2] = i]_vars

\* the second base image is being delivered, the first was delivered before
C13_Witness ==
  \E t \in Tasks :
    /\ task[t].looped /\ task[t].idx = 2 /\ task[t].pc = "sent_photo"
    /\ Len(task[t].snap) = 2
    /\ \E k \in 1..Len(task[t].out) : task[t].out[k] = << "Photo", 1 >>
    /\ task[t].out[Len(task[t].out)] = << "Photo", 2 >>

\* C15: when the download of a base image fails in Idle or CollectingImages,
\* the session's list and phase are the ones from before the message, the
\* location allocated for the image does not exist afterwards, the images
\* stored earlier are still in the list and on disk, and the user is sent
\* the failure reply; the same holds when the handlers of the message have
\* returned.
C15_DownloadFailureKeepsList ==
  [][\A t \in Tasks :
       LET tk == task[t]
           u == tk.uid
       IN /\ (/\ tk.pc = "img_download" /\ task'[t].pc = "g0_end"
               /\ task'[t].envfail
               /\ tk.phase0 \in {Idle, CollectingImages})
             => /\ user_state'[u].images = tk.imgs0
                /\ Phase(user_state'[u]) = tk.phase0
                /\ fs'[tk.dest] = Absent
                /\ \A p \in Range(tk.imgs0) : fs'[p] = fs[p]
                /\ task'[t].out = Append(tk.out, Reply("SaveFailed"))
          /\ (/\ tk.pc # "done" /\ task'[t].pc = "done"
               /\ tk.kind = Image /\ tk.envfail
               /\ tk.phase0 \in {Idle, CollectingImages}
               /\ Reply("SaveFailed") \in Range(tk.out)
               /\ Reply("Saved") \notin Range(tk.out))
             => /\ user_state'[u].images = tk.imgs0
                /\ Phase(user_state'[u]) = tk.phase0
                /\ \A p \in Range(tk.imgs0) : fs'[p] = fs[p]]_vars

\* the download of a second base image failed: the first is still stored
C15_Witness ==
  \E t \in Tasks :
    /\ task[t].pc = "done" /\ task[t].kind = Image /\ task[t].envfail
    /\ task[t].phase0 = CollectingImages
    /\ Reply("SaveFailed") \in Range(task[t].out)
    /\ Reply("Saved") \notin Range(task[t].out)
    /\ Len(user_state[task[t].uid].images) = 1
    /\ fs[user_state[task[t].uid].images[1]] # Absent

\* C16: the conversion of a static sticker yields a PNG if and only if the
\* primary decode (Pillow) succeeds, or it fails and the fallback (dwebp)
\* succeeds; then the PNG exists and is the logo.  When both fail, no PNG is
\* left, the downloaded sticker file is deleted, no batch run starts, the
\* session is as before and the user is told that the codec is missing.
C16_StickerConversion ==
  [][\A t \in Tasks :
       LET tk == task[t]
           tk1 == task'[t]
           primary == tk.content = Good /\ tk1.codec[1]
           fallback == tk.content = Good /\ tk1.codec[2]
       IN (/\ tk.pc = "logo_download" /\ tk1.pc # "logo_download"
           /\ tk.kind = Sticker /\ faults' = faults)
          => /\ (tk1.logo_tmp # NoPath) <=> (primary \/ (~primary /\ fallback))
             /\ fs'[tk.webp_path] = Absent
             /\ tk1.logo_tmp # NoPath
                  => /\ fs'[tk1.logo_tmp] = Good
                     /\ tk1.pc = "sent_processing"
             /\ tk1.logo_tmp = NoPath
                  => /\ fs' = fs
                     /\ tk1.pc = "done" /\ ~tk1.looped
                     /\ tk1.out = Append(tk.out, Reply("ConvFailed"))
                     /\ user_state' = user_state]_vars

\* Pillow could not decode the sticker, dwebp could: the batch has started
C16_Witness ==
  \E t \in Tasks :
    /\ task[t].kind = Sticker /\ task[t].looped
    /\ task[t].codec = << FALSE, TRUE >>
    /\ task[t].logo_tmp # NoPath /\ fs[task[t].logo_tmp] = Good

\* C19: with every handler run to completion before the next one starts, the
\* flags confirmed and waiting_logo are equal for every user in every
\* reachable state, so the phase is the same whichever of the two it is read
\* from, and the reply "Please wait for the bot to ask for the logo" (the
\* guard confirmed and not waiting_logo) is never sent.
C19_ConfirmedIsWaitingLogo ==
  /\ \A u \in Users :
       /\ user_state[u].confirmed = user_state[u].waiting_logo
       /\ Phase(user_state[u]) =
            (IF user_state[u].confirmed THEN AwaitingLogo
             ELSE IF user_state[u].images = << >> THEN Idle
             ELSE CollectingImages)
  /\ \A t \in Tasks : Reply("PleaseWait") \notin Range(task[t].out)

\* a logo has passed both guards of the logo handler after a confirm
C19_Witness ==
  \E t \in Tasks :
    /\ task[t].kind = Sticker /\ task[t].pc = "logo_get_file"
    /\ task[t].phase0 = AwaitingLogo
    /\ user_state[task[t].uid].confirmed /\ user_state[task[t].uid].waiting_logo

\* C20: a photo or image document that arrives in Idle or CollectingImages
\* goes to the image handler and then to the logo handler.  It is appended
\* to the list exactly once (when its download succeeded), and the logo
\* handler only answers that the batch is not confirmed: its step neither
\* appends, nor changes the phase, nor touches a file, nor starts a batch.
C20_PhotoSeenByBothHandlers ==
  [][\A t \in Tasks :
       LET tk == task[t]
           tk1 == task'[t]
           u == tk1.uid
       IN (/\ tk1.kind = Image /\ tk1.phase0 \in {Idle, CollectingImages})
          => /\ ~tk1.looped /\ tk1.logo_tmp = NoPath
             /\ tk1.pc \in {"img_get_file", "img_download", "img_saved", "g0_end", "done"}
             /\ (tk.pc # "done" /\ tk1.pc = "done")
                  => /\ tk.pc \in {"img_get_file", "img_saved", "g0_end"}
                     /\ tk1.out = Append(tk.out, Reply("NotConfirmed"))
                     /\ user_state'[u].images = user_state[u].images
                     /\ Phase(user_state'[u]) = Phase(user_state[u])
                     /\ fs' = fs
                     /\ ~user_state'[u].waiting_logo
                     /\ user_state'[u].images =
                          (IF Reply("Saved") \in Range(tk1.out)
                             THEN tk1.imgs0 \o << user_state'[u].images[Len(tk1.imgs0) + 1] >>
                             ELSE tk1.imgs0)]_vars

\* a second photo has been stored and both handlers have answered
C20_Witness ==
  \E t \in Tasks :
    /\ task[t].pc = "done" /\ task[t].kind = Image
    /\ task[t].phase0 = CollectingImages
    /\ task[t].out = << Reply("Saved"), Reply("NotConfirmed") >>
    /\ Len(user_state[task[t].uid].images) = 2

\* the handles a handler holds in its local variables
Locals(tk) ==
  ({tk.dest, tk.logo_tmp, tk.webp_path, tk.out_path} \cup Range(tk.proc)) \ {NoPath}

\* the handles a handler has got from the allocator itself, other than the
\* base image that it hands over to its session
OwnLocals(tk) ==
  ({tk.logo_tmp, tk.webp_path, tk.out_path} \cup Range(tk.proc)) \ {NoPath}

C18_CleanupIdempotent ==
  [][res' = res + 1
     => /\ fs' \in [Paths -> {Absent, Good, Bad}]
        /\ \A p \in Range(arg) \ {NoPath} : fs'[p] = Absent
        /\ \A p \in Paths \ Range(arg) : fs'[p] = fs[p]
        /\ (\A p \in Range(arg) \ {NoPath} : fs[p] = Absent) => fs' = fs
        /\ res = 1 => fs' = fs]_vars

\* the second call on a list of two paths, one of which held a file, with a
\* file outside the list still there
C18_Witness ==
  /\ res = 2 /\ Len(arg) = 2 /\ arg[1] # arg[2] /\ NoPath \notin Range(arg)
  /\ \A p \in Range(arg) : fs[p] = Absent
  /\ \E p \in Paths \ Range(arg) : fs[p] # Absent

\* C12: in the single-image bot, whenever an image is handled while the
\* user's stage is awaiting_logo, then when the handler has returned the
\* user's record is removed and the base, the logo and the output file are
\* all deleted, also when the base or the logo cannot be decoded.
C12_LogoAlwaysResets ==
  (/\ btask.pc = "done"
   /\ btask.stage0 = "awaiting_logo"
   /\ btask.logo_path # NoPath)
  => /\ USER_STATE[btask.uid] = NoStage
     /\ fs[btask.orig_path] = Absent
     /\ fs[btask.logo_path] = Absent
     /\ fs[btask.output_path] = Absent

\* C11: whenever no handler is in flight for a user and the user's session
\* is Idle, no file that was allocated on that user's behalf still exists.
\* Every file in the store was allocated for some user, so when no handler
\* runs and every user is Idle the store is empty; stated for the
\* single-image bot, where Idle is: no record in USER_STATE.
C11_IdleLeavesNoFiles ==
  (/\ btask.pc \in {"idle", "done"}
   /\ \A u \in Users : USER_STATE[u] = NoStage)
  => \A p \in Paths : fs[p] = Absent

\* C14: for every base width W >= 1 and logo size Lw >= 1 by Lh >= 1 the
\* compositor resizes the logo to the width max(1, floor(W * 12 / 100)) and
\* the height max(1, floor(Lh * width / Lw)), and pastes it at (p, p) with
\* p = max(15, floor(W * 3 / 100)): 120 by 48 at (30, 30) for W = 1000,
\* Lw = 500, Lh = 200.
C14_LogoGeometry ==
  res # NoSize
  => LET W == arg[1]
         Lw == arg[2]
         Lh == arg[3]
         w == max(1, (W * 12) \div 100)
         p == max(15, (W * 3) \div 100)
     IN /\ res.target_w = w
        /\ res.new_h = max(1, (Lh * w) \div Lw)
        /\ res.position = << p, p >>

\* C23: with the padding p and the logo width w the compositor computes for
\* a base image of width W, the logo lies inside the canvas from left to
\* right (p + w <= W) exactly when W >= 16; for W from 1 to 15 the left edge
\* of the logo is at or beyond the right edge of the canvas (p >= W), and
\* none of the canvas's columns 0 .. W-1 is one of the logo's columns
\* p .. p+w-1.
C23_OverlayInsideCanvas ==
  res # NoSize =>
    LET W == arg[1]
        p == res.position[1]
        w == res.target_w
    IN /\ (p + w <= W) <=> (W >= 16)
       /\ W \in 1..15 =>
            /\ p >= W
            /\ {x \in 0..(W - 1) : p <= x /\ x < p + w} = {}

\* a base image 15 pixels wide has been composited: the logo, one pixel
\* wide, is pasted at column 15, the first column past the canvas
C23_Witness ==
  /\ res # NoSize
  /\ arg[1] = 15
  /\ res.target_w = 1
  /\ res.position = << 15, 15 >>

\* C21: while the handlers of a message that arrived in AwaitingLogo run, up
\* to the start of the batch loop, the user's record and the files of the
\* stored base images are left as they are.  So when the message could not
\* be used as a logo (an animated sticker; a static sticker that neither
\* Pillow nor dwebp converts; a photo, document or sticker whose get_file or
\* download raises) the handler returns without a batch run, the session is
\* still in AwaitingLogo and its list is the one from before the message;
\* and a logo handler that does start the loop takes the whole stored list.
C21_UnusableLogoKeepsBatch ==
  [][\A t \in Tasks :
       LET tk == task[t]
           tk1 == task'[t]
           u == tk1.uid
           last == tk1.out[Len(tk1.out)]
           unusable ==
             \/ tk1.kind = Animated /\ last = Reply("SendLogo")
             \/ tk1.kind = Sticker /\ last = Reply("ConvFailed")
             \/ /\ tk1.kind \in {Image, Sticker} /\ tk1.envfail
                /\ last = Reply("Unexpected")
                /\ Reply("Processing") \notin Range(tk1.out)
       IN (/\ tk1 # tk /\ tk1.pc # "idle"
           /\ tk1.kind \in {Image, Sticker, Animated}
           /\ tk1.phase0 = AwaitingLogo)
          => /\ ~tk1.looped
                  => /\ user_state'[u] = user_state[u]
                     /\ \A p \in Range(user_state[u].images) : fs'[p] = fs[p]
             /\ (tk1.pc = "done" /\ tk.pc # "done" /\ tk1.out # << >> /\ unusable)
                  => /\ ~tk1.looped
                     /\ Phase(user_state'[u]) = AwaitingLogo
                     /\ user_state'[u].images = tk1.imgs0
                     /\ user_state'[u].images # << >>
             /\ (tk1.looped /\ ~tk.looped)
                  => /\ tk1.snap = tk1.imgs0
                     /\ tk1.snap = user_state[u].images]_vars

\* a static sticker arrived in AwaitingLogo and neither Pillow nor dwebp
\* converted it: the handler has returned, the session still waits for the
\* logo and its base image is still stored and on disk
C21_Witness ==
  \E t \in Tasks :
    /\ task[t].pc = "done" /\ task[t].kind = Sticker
    /\ task[t].phase0 = AwaitingLogo /\ ~task[t].looped
    /\ task[t].out = << Reply("ConvFailed") >>
    /\ user_state[task[t].uid].waiting_logo
    /\ user_state[task[t].uid].images = task[t].imgs0
    /\ Len(task[t].imgs0) = 1
    /\ fs[task[t].imgs0[1]] # Absent

\* C22: a handler that starts for a user in Idle does the same whether the
\* user has no record or the empty record: its reply and the point where it
\* stops are given by the kind of message alone, the store and the other
\* users' records are left alone, and the user's record afterwards is again
\* one of the two representations of Idle, the empty record whenever the
\* handler goes on after an await.  No handler in flight is ever without its
\* user's record, so no later step reads the difference either.  Two runs
\* that differ in the representation alone therefore stay in step: same
\* replies, same stored images, same phases.
C22_IdleRepresentationsEquivalent ==
  [][\A t \in Tasks :
       LET tk1 == task'[t]
           u == tk1.uid
           k == tk1.kind
           end(replies) ==
             [IdleTask EXCEPT !.pc = "done", !.uid = u, !.kind = k,
                              !.out = replies, !.during = tk1.during]
       IN /\ (tk1.pc \notin {"idle", "done"} => user_state'[u].present)
          /\ (/\ task[t].pc = "idle" /\ tk1.pc # "idle"
              /\ user_state[u] \in {NoRec, EmptyRec})
             => /\ user_state'[u] \in {NoRec, EmptyRec}
                /\ \A v \in Users \ {u} : user_state'[v] = user_state[v]
                /\ fs' = fs
                /\ tk1 =
                     CASE k = "start" -> end(<< Reply("Welcome") >>)
                       [] k = "cancel" -> end(<< Reply("Cancelled") >>)
                       [] k = "confirm" -> end(<< Reply("NoImages") >>)
                       [] k = "text" -> end(<< >>)
                       [] k \in {Sticker, Animated} ->
                            end(<< Reply("NotConfirmed") >>)
                       [] k = Image ->
                            [IdleTask EXCEPT !.pc = "img_get_file", !.uid = u,
                                             !.kind = k, !.content = tk1.content,
                                             !.during = tk1.during]
                /\ tk1.pc # "done" => user_state'[u] = EmptyRec]_vars

\* a text that is not "confirm" was handled for a user who had the empty
\* record (it is left as it was), while another user has no record
C22_Witness ==
  \E t \in Tasks :
    /\ task[t].pc = "done" /\ task[t].kind = "text"
    /\ task[t].out = << >>
    /\ user_state[task[t].uid] = EmptyRec
    /\ \E v \in Users : user_state[v] = NoRec
====
